---------------------------- MODULE Spec2Model ----------------------------
(***************************************************************************)
(* Model of the NLP formulation layer of HiOp                              *)
(* (src/src/Optimization/hiopNlpFormulation.hpp): the formulation base     *)
(* class hiopNlpFormulation and its two specializations                    *)
(* hiopNlpDenseConstraints and hiopNlpMDS.                                 *)
(*                                                                         *)
(* One formulation object is modelled.  Its build (assert() compiled in,   *)
(* or compiled out by NDEBUG), its concrete class and the user's problem   *)
(* are chosen in Init.  Vectors are sequences (1-based positions); the     *)
(* constraint mappings hold 0-based original indices as the C++ arrays do. *)
(* Every operation records its call in `last`: the arguments it was given, *)
(* what it logged, every call it made into the user's interface (`calls`)  *)
(* and how it ended ("true", "false", "void", or "abort" for a failed      *)
(* assert()).                                                              *)
(*                                                                         *)
(* Arguments an operation only forwards unchanged and never tests (new_x,  *)
(* obj_factor, lambda, status, obj_value, the iteration statistics) are    *)
(* left out.  Every hiopVector is a hiopVectorPar, the only vector class.  *)
(* finalizeInitialization, the constructor and the transformation chain    *)
(* are only declared in this header; they follow the design document.      *)
(***************************************************************************)
EXTENDS Integers, Sequences, FiniteSets

\* ------------------------------------------------------------------ bounds
\* largest number of variables / constraints of the user's problem
MaxVars == 2
MaxCons == 2
\* largest nonzero count of a sparse block
MaxNnz == 1

\* -------------------------------------------------------------- constants
\* magnitude of the sentinel standing for an infinite bound
Inf == 100
NegInf == 0 - Inf
PosInf == Inf
\* tolerance under which xu - xl makes a variable "fixed" (integer model)
dFixedVarsTol == 1

VARIABLES
  assertsEnabled,      \* build: TRUE iff assert() is compiled in (no NDEBUG)
  form,                \* concrete class: "Dense" or "MDS"
  interface_base,      \* the user's problem as the user interface reports it
  strFixedVars,        \* "none", "fixed", "relax"
  phase,               \* "Constructed", "Finalized", "Aborted"
  n_vars, n_cons, n_cons_eq, n_cons_ineq,
  n_bnds_low, n_bnds_upp, n_ineq_low, n_ineq_upp,
  xl, xu, ixl, ixu,
  c_rhs,
  dl, du, idl, idu,
  cons_eq_mapping, cons_ineq_mapping,
  nlp_transformations, \* the fixed-variable transformation built by finalization
  sol,                 \* the solver-owned iterate: x, z_L, z_U, c, d, yc, yd
  last                 \* record of the last operation called on the formulation

dims == <<n_vars, n_cons, n_cons_eq, n_cons_ineq,
          n_bnds_low, n_bnds_upp, n_ineq_low, n_ineq_upp>>
bounds_vecs == <<xl, xu, ixl, ixu, c_rhs, dl, du, idl, idu>>
mappings == <<cons_eq_mapping, cons_ineq_mapping>>
nlp_data == <<dims, bounds_vecs, mappings, nlp_transformations>>
config == <<assertsEnabled, form, interface_base, strFixedVars>>
vars == <<config, phase, nlp_data, sol, last>>

\* ----------------------------------------------------------- value domains
MatrixKinds == {"hiopMatrixDense", "hiopMatrixMDS", "hiopMatrixSymBlockDiagMDS"}
\* a matrix handle: its dynamic type and the nonzero count of its sparse block
Handles == [kind : MatrixKinds, sp_nnz : {MaxNnz}]
VarBoundOptions == {<<NegInf, 1>>, <<1, 1>>, <<1, 0>>}
ConsBoundOptions == {<<NegInf, 1>>, <<1, 1>>}
Policies == {"none", "fixed", "relax"}
Iterates == {0, 1}

BoolStr(b) == IF b THEN "true" ELSE "false"
\* a raw array argument: the null pointer, or a pointer to the data v
NullPtr == [null |-> TRUE, data |-> <<>>]
Ptr(v) == [null |-> FALSE, data |-> v]
NoCall == [op |-> "none", args |-> <<>>, ret |-> "none", log |-> <<>>, calls |-> <<>>]
\* before the driver's first iterate no vector is allocated (iter = -1)
EmptySol == [iter |-> 0 - 1, x |-> <<>>, z_L |-> <<>>, z_U |-> <<>>,
             c |-> <<>>, d |-> <<>>, yc |-> <<>>, yd |-> <<>>]
\* the driver holds an iterate whose vectors it can pass to the formulation
HasIterate == sol.iter >= 0


\* ------------------------------------------------- bound/type classifier
\* 1 where the bound is finite, 0 otherwise
LowIndicator(lo) == IF lo > NegInf THEN 1 ELSE 0
UppIndicator(hi) == IF hi < PosInf THEN 1 ELSE 0

\* a variable is fixed iff both bounds are finite and closer than the tolerance
IsFixedVar(lo, hi) == lo > NegInf /\ hi < PosInf /\ lo <= hi /\ hi - lo < dFixedVarsTol

\* number of entries equal to 1 in an indicator vector
RECURSIVE CountOnes(_)
CountOnes(v) == IF v = <<>> THEN 0 ELSE v[1] + CountOnes(Tail(v))

\* the user's variables (1-based positions) an elimination policy removes
FixedIdx(policy, ub) ==
  IF policy = "fixed"
  THEN {i \in 1..ub.n : IsFixedVar(ub.xlow[i], ub.xupp[i])}
  ELSE {}

\* the user's variables kept in the internal problem, in the user's order
RECURSIVE KeptUpTo(_, _)
KeptUpTo(fixed, k) ==
  IF k = 0 THEN <<>>
  ELSE IF k \in fixed THEN KeptUpTo(fixed, k - 1)
       ELSE Append(KeptUpTo(fixed, k - 1), k)

\* upper bound of the user's variable i after the policy (relax widens a fixed one)
RelaxedUpp(policy, ub, i) ==
  IF policy = "relax" /\ IsFixedVar(ub.xlow[i], ub.xupp[i])
  THEN ub.xlow[i] + dFixedVarsTol
  ELSE ub.xupp[i]

\* faulty variant of IsEq: every constraint with a finite upper bound is an equality
IsEqMut(lo, hi) == hi < PosInf
\* a constraint is an equality iff its lower and upper bounds coincide
IsEq(lo, hi) == lo = hi

\* original (0-based) indices of the equality constraints among the first k

RECURSIVE EqMappingUpTo(_, _, _)
EqMappingUpTo(clow, cupp, k) ==
  IF k = 0 THEN <<>>
  ELSE IF IsEq(clow[k], cupp[k])
       THEN Append(EqMappingUpTo(clow, cupp, k - 1), k - 1)
       ELSE EqMappingUpTo(clow, cupp, k - 1)

RECURSIVE IneqMappingUpTo(_, _, _)
IneqMappingUpTo(clow, cupp, k) ==
  IF k = 0 THEN <<>>
  ELSE IF IsEq(clow[k], cupp[k])
       THEN IneqMappingUpTo(clow, cupp, k - 1)
       ELSE Append(IneqMappingUpTo(clow, cupp, k - 1), k - 1)

\* finalization fails on inconsistent variable bounds
BoundsConsistent(ub) == \A i \in 1..ub.n : ub.xlow[i] <= ub.xupp[i]

\* ------------------------------------------------------ transformation chain
\* internal -> user: re-inserts the eliminated variables at their fixed value
ApplyTox(tr, x) ==
  [i \in 1..tr.n_pre |->
     IF i \in tr.fixed THEN tr.fixed_val[i]
     ELSE x[CHOOSE k \in 1..Len(tr.kept) : tr.kept[k] = i]]

\* ---------------------------------------------------------------- accessors
n == n_vars
m == n_cons
m_eq == n_cons_eq
m_ineq == n_cons_ineq
n_low == n_bnds_low
n_upp == n_bnds_upp
m_ineq_low == n_ineq_low
m_ineq_upp == n_ineq_upp
n_complem == m_ineq_low + m_ineq_upp + n_low + n_upp

\* --------------------------------------------------------------------- Init
UserProblems ==
  UNION {[n : {nv}, xlow : [1..nv -> {b[1] : b \in VarBoundOptions}],
          xupp : [1..nv -> {b[2] : b \in VarBoundOptions}],
          m : {nc}, clow : [1..nc -> {b[1] : b \in ConsBoundOptions}],
          cupp : [1..nc -> {b[2] : b \in ConsBoundOptions}]]
         : nv \in 1..MaxVars, nc \in 0..MaxCons}

Init ==
  /\ assertsEnabled \in BOOLEAN
  /\ form \in {"Dense", "MDS"}
  /\ interface_base \in {u \in UserProblems :
        /\ \A i \in 1..u.n : <<u.xlow[i], u.xupp[i]>> \in VarBoundOptions
        /\ \A k \in 1..u.m : <<u.clow[k], u.cupp[k]>> \in ConsBoundOptions}
  /\ strFixedVars \in Policies
  /\ phase = "Constructed"
  /\ n_vars = 0 /\ n_cons = 0 /\ n_cons_eq = 0 /\ n_cons_ineq = 0
  /\ n_bnds_low = 0 /\ n_bnds_upp = 0 /\ n_ineq_low = 0 /\ n_ineq_upp = 0
  /\ xl = <<>> /\ xu = <<>> /\ ixl = <<>> /\ ixu = <<>>
  /\ c_rhs = <<>>
  /\ dl = <<>> /\ du = <<>> /\ idl = <<>> /\ idu = <<>>
  /\ cons_eq_mapping = <<>> /\ cons_ineq_mapping = <<>>
  /\ nlp_transformations = [n_pre |-> 0, n_post |-> 0, fixed |-> {},
                            kept |-> <<>>, fixed_val |-> <<>>]
  /\ sol = EmptySol
  /\ last = NoCall

\* ---------------------------------------------------- finalizeInitialization
\* (each intermediate result is bound once, as a local of the C++ method is)
finalizeInitialization ==
  /\ phase \in {"Constructed", "Finalized"}
  /\ IF ~BoundsConsistent(interface_base)
     THEN /\ last' = [op |-> "finalizeInitialization", args |-> <<>>,
                      ret |-> "false",
                      log |-> <<"inconsistent bounds">>, calls |-> <<>>]
          /\ UNCHANGED <<phase, nlp_data>>
     ELSE \E ub \in {interface_base} :
          \E fixed \in {FixedIdx(strFixedVars, ub)},
             eqm \in {EqMappingUpTo(ub.clow, ub.cupp, ub.m)},
             inm \in {IneqMappingUpTo(ub.clow, ub.cupp, ub.m)} :
          \E kept \in {KeptUpTo(fixed, ub.n)} :
          \E nxl \in {[k \in 1..Len(kept) |-> ub.xlow[kept[k]]]},
             nxu \in {[k \in 1..Len(kept) |-> RelaxedUpp(strFixedVars, ub, kept[k])]},
             ndl \in {[k \in 1..Len(inm) |-> ub.clow[inm[k] + 1]]},
             ndu \in {[k \in 1..Len(inm) |-> ub.cupp[inm[k] + 1]]} :
          \E nixl \in {[k \in 1..Len(kept) |-> LowIndicator(nxl[k])]},
             nixu \in {[k \in 1..Len(kept) |-> UppIndicator(nxu[k])]},
             nidl \in {[k \in 1..Len(inm) |-> LowIndicator(ndl[k])]},
             nidu \in {[k \in 1..Len(inm) |-> UppIndicator(ndu[k])]} :
             /\ phase' = "Finalized"
             /\ n_vars' = Len(kept)
             /\ n_cons' = ub.m
             /\ n_cons_eq' = Len(eqm)
             /\ n_cons_ineq' = Len(inm)
             /\ xl' = nxl
             /\ xu' = nxu
             /\ ixl' = nixl
             /\ ixu' = nixu
             /\ n_bnds_low' = CountOnes(nixl)
             /\ n_bnds_upp' = CountOnes(nixu)
             /\ c_rhs' = [k \in 1..Len(eqm) |-> ub.clow[eqm[k] + 1]]
             /\ dl' = ndl
             /\ du' = ndu
             /\ idl' = nidl
             /\ idu' = nidu
             /\ n_ineq_low' = CountOnes(nidl)
             /\ n_ineq_upp' = CountOnes(nidu)
             /\ cons_eq_mapping' = eqm
             /\ cons_ineq_mapping' = inm
             /\ nlp_transformations' =
                  [n_pre |-> ub.n, n_post |-> Len(kept), fixed |-> fixed,
                   kept |-> kept, fixed_val |-> [i \in 1..ub.n |-> ub.xlow[i]]]
             /\ last' = [op |-> "finalizeInitialization", args |-> <<>>,
                         ret |-> "true", log |-> <<>>, calls |-> <<>>]
  /\ UNCHANGED <<config, sol>>

\* ------------------------------------------------------------- the driver
\* The algorithm driver moves to its next iterate.  It owns x, z_L, z_U, c, d,
\* yc, yd.  A well-sized iterate has x of the internal size and d of the
\* inequality count; an ill-sized one has x of the user's size and d of the
\* total constraint count.
DriverStep(k, wellSized) ==
  /\ phase = "Finalized"
  /\ LET xs == IF wellSized THEN n_vars ELSE interface_base.n
         ds == IF wellSized THEN n_cons_ineq ELSE n_cons
     IN sol' = [iter |-> k,
                x   |-> [i \in 1..xs |-> (k + i) % 2],
                z_L |-> [i \in 1..xs |-> (k + i + 1) % 2],
                z_U |-> [i \in 1..xs |-> k],
                c   |-> [j \in 1..n_cons_eq |-> k],
                d   |-> [j \in 1..ds |-> (k + j) % 2],
                yc  |-> [j \in 1..n_cons_eq |-> 1 - k],
                yd  |-> [j \in 1..ds |-> (k + j + 1) % 2]]
  /\ last' = NoCall
  /\ UNCHANGED <<config, phase, nlp_data>>

\* ------------------------------------------------ hiopNlpDenseConstraints
\* faulty variant of DenseEvalJacC: the handle's type is not tested (a static cast)
DenseEvalJacCMut(h, rawRet) ==
  /\ phase = "Finalized" /\ form = "Dense" /\ HasIterate
  /\ last' = [op |-> "Dense.eval_Jac_c", args |-> h, ret |-> BoolStr(rawRet),
              log |-> <<>>,
              calls |-> <<[fn |-> "eval_Jac_c(double**)", x |-> sol.x,
                           data |-> h, ret |-> rawRet]>>]
  /\ UNCHANGED <<config, phase, nlp_data, sol>>

\* eval_Jac_c(x, new_x, hiopMatrix&); rawRet is what the raw-pointer overload
\* eval_Jac_c(x, new_x, double**) returns
DenseEvalJacC(h, rawRet) ==
  /\ phase = "Finalized" /\ form = "Dense" /\ HasIterate
  /\ IF h.kind # "hiopMatrixDense"
     THEN last' = [op |-> "Dense.eval_Jac_c", args |-> h, ret |-> "false",
                   log |-> <<"[internal error] hiopNlpDenseConstraints NLP works only with dense matrices">>,
                   calls |-> <<>>]
     ELSE last' = [op |-> "Dense.eval_Jac_c", args |-> h, ret |-> BoolStr(rawRet),
                   log |-> <<>>,
                   calls |-> <<[fn |-> "eval_Jac_c(double**)", x |-> sol.x,
                                data |-> h, ret |-> rawRet]>>]
  /\ UNCHANGED <<config, phase, nlp_data, sol>>

\* eval_Jac_d(x, new_x, hiopMatrix&)
DenseEvalJacD(h, rawRet) ==
  /\ phase = "Finalized" /\ form = "Dense" /\ HasIterate
  /\ IF h.kind # "hiopMatrixDense"
     THEN last' = [op |-> "Dense.eval_Jac_d", args |-> h, ret |-> "false",
                   log |-> <<"[internal error] hiopNlpDenseConstraints NLP works only with dense matrices">>,
                   calls |-> <<>>]
     ELSE last' = [op |-> "Dense.eval_Jac_d", args |-> h, ret |-> BoolStr(rawRet),
                   log |-> <<>>,
                   calls |-> <<[fn |-> "eval_Jac_d(double**)", x |-> sol.x,
                                data |-> h, ret |-> rawRet]>>]
  /\ UNCHANGED <<config, phase, nlp_data, sol>>

\* eval_Hess_Lagr: assert(false && ...); return true;
DenseEvalHessLagr(h) ==
  /\ phase = "Finalized" /\ form = "Dense" /\ HasIterate
  /\ IF assertsEnabled
     THEN /\ phase' = "Aborted"
          /\ last' = [op |-> "Dense.eval_Hess_Lagr", args |-> h, ret |-> "abort",
                      log |-> <<>>, calls |-> <<>>]
     ELSE /\ phase' = phase
          /\ last' = [op |-> "Dense.eval_Hess_Lagr", args |-> h, ret |-> "true",
                      log |-> <<>>, calls |-> <<>>]
  /\ UNCHANGED <<config, nlp_data, sol>>

\* ------------------------------------------------------------- hiopNlpMDS
\* the call eval_Jac_c makes into the user's combined Jacobian callback
JacConsCall(num_cons, idx_cons, h, userRet) ==
  [fn |-> "eval_Jac_cons", n |-> n_vars, m |-> n_cons,
   num_cons |-> num_cons, idx_cons |-> idx_cons, x |-> sol.x,
   nnz |-> h.sp_nnz, mat |-> h, ret |-> userRet]

\* the common body of hiopNlpMDS::eval_Jac_c and eval_Jac_d
MDSEvalJac(op, num_cons, idx_cons, h, userRet) ==
  IF h.kind # "hiopMatrixMDS"
  THEN IF assertsEnabled
       THEN /\ phase' = "Aborted"
            /\ last' = [op |-> op, args |-> h, ret |-> "abort",
                        log |-> <<>>, calls |-> <<>>]
       ELSE /\ phase' = phase
            /\ last' = [op |-> op, args |-> h, ret |-> "false",
                        log |-> <<>>, calls |-> <<>>]
  ELSE /\ phase' = phase
       /\ last' = [op |-> op, args |-> h, ret |-> BoolStr(userRet), log |-> <<>>,
                   calls |-> <<JacConsCall(num_cons, idx_cons, h, userRet)>>]

\* faulty variant of MDSEvalJacC: no assert and no if(pJac_c) guard
MDSEvalJacCMut(h, userRet) ==
  /\ phase = "Finalized" /\ form = "MDS" /\ HasIterate
  /\ phase' = phase
  /\ last' = [op |-> "MDS.eval_Jac_c", args |-> h, ret |-> BoolStr(userRet),
              log |-> <<>>,
              calls |-> <<JacConsCall(n_cons_eq, cons_eq_mapping, h, userRet)>>]
  /\ UNCHANGED <<config, nlp_data, sol>>

MDSEvalJacC(h, userRet) ==
  /\ phase = "Finalized" /\ form = "MDS" /\ HasIterate
  /\ MDSEvalJac("MDS.eval_Jac_c", n_cons_eq, cons_eq_mapping, h, userRet)
  /\ UNCHANGED <<config, nlp_data, sol>>

\* faulty variant of MDSEvalJacD: the equality count and mapping are passed
MDSEvalJacDMut(h, userRet) ==
  /\ phase = "Finalized" /\ form = "MDS" /\ HasIterate
  /\ MDSEvalJac("MDS.eval_Jac_d", n_cons_eq, cons_eq_mapping, h, userRet)
  /\ UNCHANGED <<config, nlp_data, sol>>

MDSEvalJacD(h, userRet) ==
  /\ phase = "Finalized" /\ form = "MDS" /\ HasIterate
  /\ MDSEvalJac("MDS.eval_Jac_d", n_cons_ineq, cons_ineq_mapping, h, userRet)
  /\ UNCHANGED <<config, nlp_data, sol>>

\* the call eval_Hess_Lagr makes into the user's Hessian callback; the callback
\* reports nonzero counts hss (sparse block) and hsd (sparse-dense coupling)
HessLagrCall(h, userRet, hss, hsd) ==
  [fn |-> "eval_Hess_Lagr", n |-> n_vars, m |-> n_cons, x |-> sol.x,
   nnzHSS |-> h.sp_nnz, mat |-> h, nnzHSD |-> 0,
   iHSD |-> NullPtr, jHSD |-> NullPtr, MHSD |-> NullPtr,
   nnzHSS_out |-> hss, nnzHSD_out |-> hsd, ret |-> userRet]

\* faulty variant of MDSEvalHessLagr: the callback's result is dropped and the
\* call reports success
MDSEvalHessLagrMut(h, userRet, hss, hsd) ==
  /\ phase = "Finalized" /\ form = "MDS" /\ HasIterate
  /\ phase' = phase
  /\ last' = [op |-> "MDS.eval_Hess_Lagr", args |-> h,
              ret |-> IF h.kind = "hiopMatrixSymBlockDiagMDS" THEN "true" ELSE "false",
              log |-> <<>>,
              calls |-> IF h.kind = "hiopMatrixSymBlockDiagMDS"
                        THEN <<HessLagrCall(h, userRet, hss, hsd)>> ELSE <<>>]
  /\ UNCHANGED <<config, nlp_data, sol>>

MDSEvalHessLagr(h, userRet, hss, hsd) ==
  /\ phase = "Finalized" /\ form = "MDS" /\ HasIterate
  /\ IF h.kind # "hiopMatrixSymBlockDiagMDS"
     THEN IF assertsEnabled
          THEN /\ phase' = "Aborted"
               /\ last' = [op |-> "MDS.eval_Hess_Lagr", args |-> h, ret |-> "abort",
                           log |-> <<>>, calls |-> <<>>]
          ELSE /\ phase' = phase
               /\ last' = [op |-> "MDS.eval_Hess_Lagr", args |-> h, ret |-> "false",
                           log |-> <<>>, calls |-> <<>>]
     ELSE IF assertsEnabled /\ (hsd # 0 \/ hss # h.sp_nnz)
          THEN /\ phase' = "Aborted"
               /\ last' = [op |-> "MDS.eval_Hess_Lagr", args |-> h, ret |-> "abort",
                           log |-> <<>>,
                           calls |-> <<HessLagrCall(h, userRet, hss, hsd)>>]
          ELSE /\ phase' = phase
               /\ last' = [op |-> "MDS.eval_Hess_Lagr", args |-> h,
                           ret |-> BoolStr(userRet), log |-> <<>>,
                           calls |-> <<HessLagrCall(h, userRet, hss, hsd)>>]
  /\ UNCHANGED <<config, nlp_data, sol>>

\* ------------------------------------------------- user reporting callbacks
\* the two assert()s that open user_callback_solution and user_callback_iterate
SizesOk(s) == Len(s.x) = n_vars /\ Len(s.c) + Len(s.d) = n_cons

\* faulty variant of HookArgs: the hook is handed assembled constraint and multiplier arrays
HookArgsMut(fn, s, hookRet) ==
  [fn |-> fn, n |-> n_vars, x |-> Ptr(s.x), z_L |-> Ptr(s.z_L), z_U |-> Ptr(s.z_U),
   m |-> n_cons, cons |-> Ptr(s.c \o s.d), lambda |-> Ptr(s.yc \o s.yd),
   ret |-> hookRet]

\* the arguments both reporting hooks are given
HookArgs(fn, s, hookRet) ==
  [fn |-> fn, n |-> n_vars, x |-> Ptr(s.x), z_L |-> Ptr(s.z_L), z_U |-> Ptr(s.z_U),
   m |-> n_cons, cons |-> NullPtr, lambda |-> NullPtr, ret |-> hookRet]

UserCallbackSolution ==
  /\ phase = "Finalized" /\ HasIterate
  /\ IF assertsEnabled /\ ~SizesOk(sol)
     THEN /\ phase' = "Aborted"
          /\ last' = [op |-> "user_callback_solution", args |-> sol, ret |-> "abort",
                      log |-> <<>>, calls |-> <<>>]
     ELSE /\ phase' = phase
          /\ last' = [op |-> "user_callback_solution", args |-> sol, ret |-> "void",
                      log |-> <<>>,
                      calls |-> <<HookArgs("solution_callback", sol, TRUE)>>]
  /\ UNCHANGED <<config, nlp_data, sol>>

\* faulty variant of UserCallbackIterate: x is transformed to user coordinates
\* in place, in the solver's own vector
UserCallbackIterateMut(hookRet) ==
  /\ phase = "Finalized" /\ HasIterate
  /\ SizesOk(sol)
  /\ phase' = phase
  /\ last' = [op |-> "user_callback_iterate", args |-> sol, ret |-> BoolStr(hookRet),
              log |-> <<>>,
              calls |-> <<HookArgs("iterate_callback", sol, hookRet)>>]
  /\ sol' = [sol EXCEPT !.x = ApplyTox(nlp_transformations, sol.x)]
  /\ UNCHANGED <<config, nlp_data>>

UserCallbackIterate(hookRet) ==
  /\ phase = "Finalized" /\ HasIterate
  /\ IF assertsEnabled /\ ~SizesOk(sol)
     THEN /\ phase' = "Aborted"
          /\ last' = [op |-> "user_callback_iterate", args |-> sol, ret |-> "abort",
                      log |-> <<>>, calls |-> <<>>]
     ELSE /\ phase' = phase
          /\ last' = [op |-> "user_callback_iterate", args |-> sol,
                      ret |-> BoolStr(hookRet), log |-> <<>>,
                      calls |-> <<HookArgs("iterate_callback", sol, hookRet)>>]
  /\ UNCHANGED <<config, nlp_data, sol>>

\* --------------------------------------------------------------------- Next
\* The results of the user's callback are inputs only when the callback can be
\* reached: for a handle of the wrong type they are fixed, since nothing reads them.
Next ==
  \/ finalizeInitialization
  \/ \E k \in Iterates, wellSized \in BOOLEAN : DriverStep(k, wellSized)
  \/ \E h \in Handles, r \in BOOLEAN :
       (h.kind = "hiopMatrixDense" \/ ~r) /\ DenseEvalJacC(h, r)
  \/ \E h \in Handles, r \in BOOLEAN :
       (h.kind = "hiopMatrixDense" \/ ~r) /\ DenseEvalJacD(h, r)
  \/ \E h \in Handles : DenseEvalHessLagr(h)
  \/ \E h \in Handles, r \in BOOLEAN :
       (h.kind = "hiopMatrixMDS" \/ ~r) /\ MDSEvalJacC(h, r)
  \/ \E h \in Handles, r \in BOOLEAN :
       (h.kind = "hiopMatrixMDS" \/ ~r) /\ MDSEvalJacD(h, r)
  \/ \E h \in Handles, r \in BOOLEAN, hss \in {0, MaxNnz}, hsd \in 0..MaxNnz :
       /\ h.kind = "hiopMatrixSymBlockDiagMDS" \/ (~r /\ hss = 0 /\ hsd = 0)
       /\ MDSEvalHessLagr(h, r, hss, hsd)
  \/ UserCallbackSolution
  \/ \E r \in BOOLEAN : UserCallbackIterate(r)

Spec == Init /\ [][Next]_vars

\* ================================================================== claims
DenseJacOps == {"Dense.eval_Jac_c", "Dense.eval_Jac_d"}
MDSJacOps == {"MDS.eval_Jac_c", "MDS.eval_Jac_d"}
MDSOps == MDSJacOps \cup {"MDS.eval_Hess_Lagr"}
CallbackOps == {"user_callback_solution", "user_callback_iterate"}

\* the matrix type an MDS operation expects of its handle
ExpectedKind(op) ==
  IF op = "MDS.eval_Hess_Lagr" THEN "hiopMatrixSymBlockDiagMDS" ELSE "hiopMatrixMDS"

\* C1: in the dense formulation, eval_Jac_c / eval_Jac_d on a handle that is not
\* a dense matrix log the internal-error message, return false and never reach
\* the raw-pointer evaluation; on a dense handle they return what the raw-pointer
\* overload returns on that matrix's local data.
C1_DenseJacHandle ==
  last.op \in DenseJacOps =>
    IF last.args.kind # "hiopMatrixDense"
    THEN /\ last.ret = "false"
         /\ last.log = <<"[internal error] hiopNlpDenseConstraints NLP works only with dense matrices">>
         /\ last.calls = <<>>
    ELSE /\ Len(last.calls) = 1
         /\ last.calls[1].fn = (IF last.op = "Dense.eval_Jac_c"
                                THEN "eval_Jac_c(double**)" ELSE "eval_Jac_d(double**)")
         /\ last.calls[1].data = last.args
         /\ last.ret = BoolStr(last.calls[1].ret)
         /\ last.log = <<>>

C1_Witness ==
  /\ last.op = "Dense.eval_Jac_c"
  /\ last.args.kind = "hiopMatrixMDS"
  /\ last.ret = "false"

\* C2: in the MDS formulation, whenever the user's Hessian callback reports a
\* nonzero count other than 0 for the sparse-dense coupling block, eval_Hess_Lagr
\* ends in an assertion failure and never returns normally.
C2_CouplingAlwaysAsserts ==
  ( /\ last.op = "MDS.eval_Hess_Lagr"
    /\ Len(last.calls) = 1
    /\ last.calls[1].nnzHSD_out # 0 )
  => last.ret = "abort"

\* C3: in the dense formulation every call of eval_Hess_Lagr is an assertion
\* failure: no call returns a value to the driver and none reaches the user.
C3_DenseHessNeverReturns ==
  last.op = "Dense.eval_Hess_Lagr" => (last.ret = "abort" /\ last.calls = <<>>)

\* C4: in the MDS formulation eval_Jac_c forwards exactly (n_cons_eq,
\* cons_eq_mapping) and eval_Jac_d exactly (n_cons_ineq, cons_ineq_mapping),
\* with the total n_vars and n_cons, to the user's combined Jacobian callback:
\* row k is requested for original constraint mapping[k], and the equality call
\* never receives the inequality mapping or vice versa.
C4_JacForwardsOwnMapping ==
  (last.op \in MDSJacOps /\ last.calls # <<>>) =>
    LET call == last.calls[1]
        isEqCall == last.op = "MDS.eval_Jac_c"
        ub == interface_base
    IN /\ Len(last.calls) = 1
       /\ call.fn = "eval_Jac_cons"
       /\ call.n = n_vars /\ call.m = n_cons
       /\ call.num_cons = (IF isEqCall THEN n_cons_eq ELSE n_cons_ineq)
       /\ call.idx_cons = (IF isEqCall THEN cons_eq_mapping ELSE cons_ineq_mapping)
       /\ Len(call.idx_cons) = call.num_cons
       /\ \A k \in 1..call.num_cons :
            /\ call.idx_cons[k] \in 0..(ub.m - 1)
            /\ (ub.clow[call.idx_cons[k] + 1] = ub.cupp[call.idx_cons[k] + 1]) <=> isEqCall
       /\ n_cons > 0 =>
            call.idx_cons # (IF isEqCall THEN cons_ineq_mapping ELSE cons_eq_mapping)

C4_Witness ==
  /\ last.op = "MDS.eval_Jac_d"
  /\ Len(last.calls) = 1
  /\ n_cons_eq > 0 /\ n_cons_ineq > 0
  /\ last.calls[1].idx_cons = cons_ineq_mapping

\* C5: under the "fixed" policy user_callback_solution hands the user's solution
\* hook a vector of the user's (original) size in which each eliminated variable
\* is reconstructed at its fixed value and every other entry is the internal one.
C5_SolutionHookGetsUserVector ==
  ( /\ last.op = "user_callback_solution"
    /\ strFixedVars = "fixed"
    /\ Len(last.calls) = 1
    /\ Len(last.args.x) = nlp_transformations.n_post )
  => /\ last.calls[1].n = interface_base.n
     /\ last.calls[1].x = Ptr(ApplyTox(nlp_transformations, last.args.x))

\* C6: user_callback_solution and user_callback_iterate never mutate solver-owned
\* state: the vectors x, z_L, z_U, c, d, yc, yd, the dimensions, the bound and
\* indicator vectors and the constraint mappings are unchanged by every call.
C6_CallbacksFrame ==
  [][last'.op \in CallbackOps =>
       /\ UNCHANGED <<sol, dims, bounds_vecs, mappings>>
       /\ last'.args = sol']_vars

C6_Witness ==
  /\ last.op = "user_callback_iterate"
  /\ Len(last.calls) = 1
  /\ nlp_transformations.fixed # {}
  /\ Len(sol.x) > 0

\* C7: after finalizeInitialization succeeds the two mappings partition the
\* original constraint indices: lengths n_cons_eq and n_cons_ineq summing to
\* n_cons, every index of 0..n_cons-1 exactly once, each array in original order,
\* and an index is an equality iff that constraint's bounds coincide; bounds
\* (-inf,5],[3,3],[0,10],[1,1] give [1,3] and [0,2].
C7_MappingsPartition ==
  /\ phase # "Constructed" =>
       LET ub == interface_base IN
       /\ Len(cons_eq_mapping) = n_cons_eq
       /\ Len(cons_ineq_mapping) = n_cons_ineq
       /\ n_cons_eq + n_cons_ineq = n_cons
       /\ n_cons = ub.m
       /\ \A j \in 0..(n_cons - 1) :
            Cardinality({k \in 1..n_cons_eq : cons_eq_mapping[k] = j})
              + Cardinality({k \in 1..n_cons_ineq : cons_ineq_mapping[k] = j}) = 1
       /\ \A k \in 1..n_cons_eq : cons_eq_mapping[k] \in 0..(n_cons - 1)
       /\ \A k \in 1..n_cons_ineq : cons_ineq_mapping[k] \in 0..(n_cons - 1)
       /\ \A k \in 2..n_cons_eq : cons_eq_mapping[k - 1] < cons_eq_mapping[k]
       /\ \A k \in 2..n_cons_ineq : cons_ineq_mapping[k - 1] < cons_ineq_mapping[k]
       /\ \A j \in 0..(n_cons - 1) :
            (\E k \in 1..n_cons_eq : cons_eq_mapping[k] = j)
              <=> ub.clow[j + 1] = ub.cupp[j + 1]
  /\ EqMappingUpTo(<<NegInf, 3, 0, 1>>, <<5, 3, 10, 1>>, 4) = <<1, 3>>
  /\ IneqMappingUpTo(<<NegInf, 3, 0, 1>>, <<5, 3, 10, 1>>, 4) = <<0, 2>>

C7_Witness ==
  /\ phase = "Finalized"
  /\ last.op = "finalizeInitialization" /\ last.ret = "true"
  /\ n_cons_eq > 0 /\ n_cons_ineq > 0

\* C8: for the MDS formulation with a correctly typed handle, eval_Jac_c,
\* eval_Jac_d and eval_Hess_Lagr call the user's callback once and return false
\* exactly when it returned false (for the Hessian: provided the nonzero-count
\* assertions hold), and a failed evaluation leaves dimensions, bounds and
\* mappings unchanged and the formulation ready for a later evaluation.
C8_EvalFailureIsFalse ==
  [][(last'.op \in MDSOps /\ last'.args.kind = ExpectedKind(last'.op)) =>
       /\ Len(last'.calls) = 1
       /\ ( \/ last'.op \in MDSJacOps
            \/ /\ last'.calls[1].nnzHSD_out = 0
               /\ last'.calls[1].nnzHSS_out = last'.calls[1].nnzHSS )
          => last'.ret = BoolStr(last'.calls[1].ret)
       /\ last'.ret = "false" =>
            /\ UNCHANGED <<dims, bounds_vecs, mappings, nlp_transformations>>
            /\ phase' = "Finalized"]_vars

C8_Witness ==
  /\ last.op = "MDS.eval_Hess_Lagr"
  /\ last.args.kind = "hiopMatrixSymBlockDiagMDS"
  /\ Len(last.calls) = 1
  /\ last.calls[1].ret = FALSE
  /\ last.ret = "false"
  /\ phase = "Finalized"

\* C9: in the MDS formulation, eval_Jac_c, eval_Jac_d and eval_Hess_Lagr on a
\* handle that is not of the expected mixed sparse-dense type are an assertion
\* failure; whether assertions are enabled or not the user's callback is not
\* invoked, and with assertions disabled the call returns false.
C9_WrongHandleNeverReachesUser ==
  (last.op \in MDSOps /\ last.args.kind # ExpectedKind(last.op)) =>
    /\ last.calls = <<>>
    /\ assertsEnabled => last.ret = "abort"
    /\ ~assertsEnabled => last.ret = "false"

C9_Witness ==
  /\ last.op = "MDS.eval_Jac_c"
  /\ last.args.kind = "hiopMatrixDense"
  /\ ~assertsEnabled
  /\ last.ret = "false"

\* C10: user_callback_solution and user_callback_iterate require x of size n_vars
\* and c.size + d.size = n_cons (an assertion otherwise), and then invoke the
\* user's hook exactly once with n_vars, n_cons, the local data of x, z_L, z_U and
\* null constraint-value and multiplier arrays; user_callback_iterate returns the
\* hook's result.
C10_HookArguments ==
  last.op \in CallbackOps =>
    LET a == last.args
        sizesOk == Len(a.x) = n_vars /\ Len(a.c) + Len(a.d) = n_cons
    IN /\ (~sizesOk /\ assertsEnabled) => (last.ret = "abort" /\ last.calls = <<>>)
       /\ sizesOk =>
            /\ Len(last.calls) = 1
            /\ last.calls[1].fn = (IF last.op = "user_callback_solution"
                                   THEN "solution_callback" ELSE "iterate_callback")
            /\ last.calls[1].n = n_vars
            /\ last.calls[1].m = n_cons
            /\ last.calls[1].x = Ptr(a.x)
            /\ last.calls[1].z_L = Ptr(a.z_L)
            /\ last.calls[1].z_U = Ptr(a.z_U)
            /\ last.calls[1].cons = NullPtr
            /\ last.calls[1].lambda = NullPtr
            /\ last.op = "user_callback_iterate" => last.ret = BoolStr(last.calls[1].ret)
            /\ last.op = "user_callback_solution" => last.ret = "void"

C10_Witness ==
  /\ last.op = "user_callback_iterate"
  /\ Len(last.args.x) = n_vars /\ n_vars > 0
  /\ Len(last.args.c) > 0 /\ Len(last.args.d) > 0
  /\ Len(last.args.c) + Len(last.args.d) = n_cons
  /\ Len(last.calls) = 1
  /\ last.ret = "false"

=============================================================================
